---- MODULE Spec2Model ----
(***************************************************************************)
(* The product catalog service of projects/service_container/app.py: five  *)
(* request handlers over a PostgreSQL table (the Store) and a Redis        *)
(* key space (the Cache).  Every Store statement and every Cache command   *)
(* is one atomic step; a handler is a sequence of such steps, and handlers *)
(* of different requests interleave freely.  Further specifications add   *)
(* calls that raise, the health check, and the expiry of cache entries.    *)
(*                                                                         *)
(* Python values carry their type: the driver (psycopg2, RealDictCursor)   *)
(* returns a DECIMAL(10, 2) column as decimal.Decimal, the request body    *)
(* holds a float, and json.dumps has no encoder for Decimal.               *)
(***************************************************************************)
EXTENDS Integers, Sequences, FiniteSets, TLC

\* ------------------------------------------------------------------ bounds

\* Identifiers the SERIAL sequence may hand out in a run.
MaxId == 2
\* The time-to-live of every SETEX of the service, in seconds.
CacheTtl == 300

Ids == 1..MaxId
\* Request handlers that may be running at the same time.
Procs == {"r1", "r2"}

VARIABLES
    store,    \* products table: id -> row (a dict) or None
    seq,      \* last value of the SERIAL sequence products_id_seq
    cache,    \* Redis: key -> [text, ttl] or None
    pc,       \* per handler: the statement it is about to execute
    req,      \* per handler: the request it serves
    loc,      \* per handler: its local variables
    res,      \* per handler: the response it produced
    serial,   \* TRUE when the client issues one request at a time
    hist,     \* serial runs: the last completed requests, oldest first
    window,   \* serial runs: how many completed requests hist keeps
    cmeta,    \* history: per key, how its text relates to the writes
    delDone,  \* history: ids whose Delete has returned successfully
    wrote,    \* history: an Update or a Delete has returned successfully
    gh,       \* history: per handler, how what it read relates to the writes
    conns,    \* per handler: Store connections it has open
    solo,     \* history: per handler, no other request has run since it began
    expired   \* history: keys whose entry has been removed by expiry

vars == <<store, seq, cache, pc, req, loc, res, serial, hist, window,
          cmeta, delDone, wrote, gh, conns, solo, expired>>

\* ------------------------------------------------------------ Python values

None == [type |-> "NoneType"]
PyFloat(c) == [type |-> "float", cents |-> c]
PyDecimal(c) == [type |-> "Decimal", cents |-> c]

\* The request bodies (class Product): price is a float.
LaptopBody ==
    [name |-> "Laptop", description |-> "Gaming laptop",
     price |-> PyFloat(129999), stock |-> 10]
PhoneBody ==
    [name |-> "Smartphone", description |-> "Latest model",
     price |-> PyFloat(79999), stock |-> 20]
Bodies == {LaptopBody, PhoneBody}

\* The row a statement with RETURNING id, name, description, price, stock
\* yields for the values of a body: the DECIMAL(10, 2) column comes back as
\* a decimal.Decimal.
RowOf(i, body) ==
    [id |-> i, name |-> body.name, description |-> body.description,
     price |-> PyDecimal(body.price.cents), stock |-> body.stock]

\* response_model=ProductResponse: price is validated to a float.
ProductResponse(d) ==
    [id |-> d.id, name |-> d.name, description |-> d.description,
     price |-> PyFloat(d.price.cents), stock |-> d.stock]

ListResponse(l) == [i \in 1..Len(l) |-> ProductResponse(l[i])]

\* ------------------------------------------------------------------- json

\* A faulty variant of JsonEncodable: an encoder that accepts Decimal as well.
JsonEncodableAny(x) == x.type \in {"int", "str", "float", "Decimal"}

\* json.dumps encodes str, int, float, list and dict; any other object
\* reaches JSONEncoder.default, which raises TypeError.
JsonEncodable(x) == x.type \in {"int", "str", "float"}

TypeError == [type |-> "TypeError"]

\* json.dumps(product_dict): "{" items "}"; len is the number of
\* characters the text has at least.
JsonDumpsDict(d) ==
    IF JsonEncodable(d.price)
    THEN [type |-> "str", len |-> 2 + Cardinality(DOMAIN d), json |-> d]
    ELSE TypeError

\* json.dumps(products_list): "[" items "]"
JsonDumpsList(l) ==
    IF \A i \in 1..Len(l) : JsonEncodable(l[i].price)
    THEN [type |-> "str", len |-> 2 + Len(l), json |-> l]
    ELSE TypeError

\* json.loads(cached)
JsonLoads(s) == s.json

\* `if cached:` - None and the empty string are false.
Truthy(s) == s.type = "str" /\ s.len > 0

\* ------------------------------------------------------------------ cache

AllKey == <<"products:all">>
ProductKey(i) == <<"product", i>>
Keys == {AllKey} \cup {ProductKey(i) : i \in Ids}

\* r.get(key): the text, or None
RedisGet(key) == IF cache[key] = None THEN None ELSE cache[key].text

\* ------------------------------------------------------------------ store

\* A faulty variant of SelectAll: the rows in descending order of id.
SelectAllDesc ==
    LET F[n \in 0..MaxId] ==
            IF n = 0 THEN <<>>
            ELSE IF store[n] = None THEN F[n - 1]
                 ELSE <<store[n]>> \o F[n - 1]
    IN  F[MaxId]

\* SELECT * FROM products ORDER BY id
SelectAll ==
    LET F[n \in 0..MaxId] ==
            IF n = 0 THEN <<>>
            ELSE IF store[n] = None THEN F[n - 1]
                 ELSE Append(F[n - 1], store[n])
    IN  F[MaxId]


\* ---------------------------------------------------------------- history

\* What a handler's history records.  raced: an Update/Delete of what it
\* read from the Store committed after it read; after: those of them that
\* have not returned yet; missedInval: one of them has deleted the key the
\* handler is about to write; missedDone: one of them has returned.
\* hitStale, hitRaced: the same facts about the text of a cache hit.
\* afterDel: a Delete of its id had returned before the handler started;
\* afterWrite: some Update or Delete had.  hitFail: the text of the hit was
\* in the cache when a write of its rows committed, and that write failed
\* before it deleted the key.  afterExpiry: an entry of the key the handler
\* reads had expired before it started.  probed: the dependencies a health
\* check has called.
NoGh ==
    [raced |-> FALSE, after |-> {}, missedInval |-> FALSE, missedDone |-> FALSE,
     hitStale |-> FALSE, hitRaced |-> FALSE, afterDel |-> FALSE,
     afterWrite |-> FALSE, hitFail |-> FALSE, afterExpiry |-> FALSE,
     probed |-> {}]

\* What the history records of a cached text, from the handler that wrote it.
NoMeta ==
    [raced |-> FALSE, after |-> {}, staleInval |-> FALSE, staleDone |-> FALSE,
     staleFail |-> FALSE]

MetaOf(g) ==
    [raced |-> g.raced, after |-> g.after,
     staleInval |-> g.missedInval, staleDone |-> g.missedDone,
     staleFail |-> FALSE]

\* The key a reading handler fills.
KeyOf(r) == IF r.op = "get" THEN ProductKey(r.id) ELSE AllKey

\* Handler q holds rows read from the Store that a write of id i changes.
HoldsRead(q, i) ==
    \/ pc[q] = "list_setex"
    \/ pc[q] = "get_setex" /\ req[q].id = i

\* Writer w commits an Update/Delete of id i.
GhAfterCommit(g, w, i) ==
    [q \in Procs |->
        IF q = w THEN NoGh
        ELSE IF HoldsRead(q, i)
             THEN [g[q] EXCEPT !.raced = TRUE, !.after = @ \cup {w}]
             ELSE g[q]]

MetaAfterCommit(m, w, i) ==
    [k \in Keys |->
        IF cache[k] # None /\ k \in {AllKey, ProductKey(i)}
        THEN [m[k] EXCEPT !.after = @ \cup {w}]
        ELSE m[k]]

\* Writer w deletes key.
GhAfterDelete(g, w, key) ==
    [q \in Procs |->
        IF w \in g[q].after /\ KeyOf(req[q]) = key
        THEN [g[q] EXCEPT !.missedInval = TRUE]
        ELSE g[q]]

\* Writer w returns successfully.
GhAfterReturn(g, w) ==
    [q \in Procs |->
        IF w \in g[q].after
        THEN [g[q] EXCEPT !.missedDone = TRUE, !.after = @ \ {w}]
        ELSE g[q]]

MetaAfterReturn(m, w) ==
    [k \in Keys |->
        IF w \in m[k].after
        THEN [m[k] EXCEPT !.staleDone = TRUE, !.after = @ \ {w}]
        ELSE m[k]]

\* Writer w ends in an exception after its commit.
GhAfterFail(g, w) == [q \in Procs |-> [g[q] EXCEPT !.after = @ \ {w}]]

MetaAfterFail(m, w) ==
    [k \in Keys |->
        IF w \in m[k].after
        THEN [m[k] EXCEPT !.staleFail = TRUE, !.after = @ \ {w}]
        ELSE m[k]]

\* ---------------------------------------------------------------- handlers

NoReq == [op |-> "none"]
NoLoc == [none |-> None]
NoRes == [kind |-> "none"]

Ok(body, src) == [kind |-> "ok", body |-> body, src |-> src]
\* raise HTTPException(status_code=404, detail="Product not found")
NotFound == [kind |-> "NotFound", body |-> "Product not found", src |-> "store"]
\* an exception that leaves the handler: 500 Internal Server Error
Raised(e) == [kind |-> "error", body |-> e.type, src |-> "store"]

\* The last completed requests of a serial run.
Remember(h, e) ==
    LET a == Append(h, e) IN
    IF Len(a) > window THEN SubSeq(a, Len(a) - window + 1, Len(a)) ELSE a

\* A request arrives at an idle handler; a serial client sends it only
\* when it has the response to its last one.
CanStart(p) ==
    /\ pc[p] = "idle"
    /\ serial => \A q \in Procs : pc[q] = "idle"

\* Handler p, serving request r, moves to statement `to`; at "done" it
\* has produced response `out`.  A request that begins ends the time every
\* other handler had on its own.
Goto(p, r, to, out) ==
    /\ req' = [req EXCEPT ![p] = r]
    /\ pc' = [pc EXCEPT ![p] = to]
    /\ res' = [res EXCEPT ![p] = out]
    /\ hist' = IF serial /\ to = "done"
               THEN Remember(hist, [req |-> r, res |-> out])
               ELSE hist
    /\ solo' = [q \in Procs |->
                  IF pc[p] # "idle" THEN solo[q]
                  ELSE q = p /\ \A o \in Procs \ {p} : pc[o] \in {"idle", "done"}]
    /\ UNCHANGED <<serial, window>>

\* --- POST /products

\* A faulty variant of CreateInsert: the id is one more than the largest id in
\* the table, not the next value of a sequence.
CreateInsertReusingId(p) ==
    /\ CanStart(p)
    /\ LET top == IF \A i \in Ids : store[i] = None THEN 0
                  ELSE CHOOSE i \in Ids :
                          /\ store[i] # None
                          /\ \A j \in Ids : store[j] # None => j <= i
       IN /\ top < MaxId
          /\ \E body \in Bodies :
               /\ seq' = top + 1
               /\ store' = [store EXCEPT ![top + 1] = RowOf(top + 1, body)]
               /\ loc' = [loc EXCEPT ![p] = [new_product |-> RowOf(top + 1, body)]]
               /\ gh' = [gh EXCEPT ![p] = NoGh]
               /\ Goto(p, [op |-> "create", body |-> body], "create_inval", NoRes)
    /\ conns' = [conns EXCEPT ![p] = 1]
    /\ UNCHANGED <<cache, cmeta, delDone, wrote, expired>>

\* conn = get_db_connection(); INSERT ... RETURNING ...; fetchone();
\* conn.commit()
CreateInsert(p) ==
    /\ CanStart(p)
    /\ seq < MaxId
    /\ \E body \in Bodies :
         /\ seq' = seq + 1
         /\ store' = [store EXCEPT ![seq + 1] = RowOf(seq + 1, body)]
         /\ loc' = [loc EXCEPT ![p] = [new_product |-> RowOf(seq + 1, body)]]
         /\ gh' = [gh EXCEPT ![p] = NoGh]
         /\ Goto(p, [op |-> "create", body |-> body], "create_inval", NoRes)
    /\ conns' = [conns EXCEPT ![p] = 1]
    /\ UNCHANGED <<cache, cmeta, delDone, wrote, expired>>

\* A faulty variant of CreateInvalidate: the listing key is overwritten with
\* an empty listing instead of deleted.
CreateInvalidateResetting(p) ==
    /\ pc[p] = "create_inval"
    /\ cache' = [cache EXCEPT ![AllKey] =
                    [text |-> JsonDumpsList(<<>>), ttl |-> CacheTtl]]
    /\ cmeta' = [cmeta EXCEPT ![AllKey] = NoMeta]
    /\ loc' = [loc EXCEPT ![p] = NoLoc]
    /\ conns' = [conns EXCEPT ![p] = 0]
    /\ Goto(p, req[p], "done", Ok(ProductResponse(loc[p].new_product), "store"))
    /\ UNCHANGED <<store, seq, delDone, wrote, gh, expired>>

\* A faulty variant of CreateInvalidate: the listing key is left in the cache.
CreateInvalidateSkipped(p) ==
    /\ pc[p] = "create_inval"
    /\ loc' = [loc EXCEPT ![p] = NoLoc]
    /\ conns' = [conns EXCEPT ![p] = 0]
    /\ Goto(p, req[p], "done", Ok(ProductResponse(loc[p].new_product), "store"))
    /\ UNCHANGED <<store, seq, cache, cmeta, delDone, wrote, gh, expired>>

\* r.delete("products:all"); cursor.close(); conn.close();
\* return dict(new_product)
CreateInvalidate(p) ==
    /\ pc[p] = "create_inval"
    /\ cache' = [cache EXCEPT ![AllKey] = None]
    /\ cmeta' = [cmeta EXCEPT ![AllKey] = NoMeta]
    /\ loc' = [loc EXCEPT ![p] = NoLoc]
    /\ Goto(p, req[p], "done", Ok(ProductResponse(loc[p].new_product), "store"))
    /\ conns' = [conns EXCEPT ![p] = 0]
    /\ UNCHANGED <<store, seq, delDone, wrote, gh, expired>>

\* --- GET /products

\* use_cache: cached = r.get("products:all");
\* if cached: return json.loads(cached)
ListCacheGet(p) ==
    /\ CanStart(p)
    /\ LET r == [op |-> "list", use_cache |-> TRUE]
           cached == RedisGet(AllKey) IN
         IF Truthy(cached)
         THEN /\ Goto(p, r, "done", Ok(ListResponse(JsonLoads(cached)), "cache"))
              /\ gh' = [gh EXCEPT ![p] =
                          [NoGh EXCEPT !.hitStale = cmeta[AllKey].staleDone,
                                       !.hitRaced = cmeta[AllKey].raced,
                                       !.hitFail = cmeta[AllKey].staleFail,
                                       !.afterWrite = wrote]]
         ELSE /\ Goto(p, r, "list_select", NoRes)
              /\ gh' = [gh EXCEPT ![p] =
                          [NoGh EXCEPT !.afterExpiry = (AllKey \in expired)]]
    /\ loc' = [loc EXCEPT ![p] = NoLoc]
    /\ UNCHANGED <<store, seq, cache, cmeta, delDone, wrote, conns, expired>>

\* cursor.execute("SELECT * FROM products ORDER BY id"); fetchall()
\* It is the first statement of a request with use_cache=false.
ListSelect(p) ==
    /\ \/ /\ pc[p] = "list_select"
          /\ Goto(p, req[p], "list_setex", NoRes)
       \/ /\ CanStart(p)
          /\ Goto(p, [op |-> "list", use_cache |-> FALSE], "list_setex", NoRes)
    /\ loc' = [loc EXCEPT ![p] = [products |-> SelectAll]]
    /\ gh' = [gh EXCEPT ![p] = [NoGh EXCEPT !.afterExpiry = gh[p].afterExpiry]]
    /\ UNCHANGED <<store, seq, cache, cmeta, delDone, wrote, conns, expired>>

\* r.setex("products:all", 300, json.dumps(products_list)); return products_list
ListSetex(p) ==
    /\ pc[p] = "list_setex"
    /\ LET text == JsonDumpsList(loc[p].products) IN
         IF text = TypeError
         THEN /\ Goto(p, req[p], "done", Raised(TypeError))
              /\ UNCHANGED <<cache, cmeta>>
         ELSE /\ cache' = [cache EXCEPT ![AllKey] =
                              [text |-> text, ttl |-> CacheTtl]]
              /\ cmeta' = [cmeta EXCEPT ![AllKey] = MetaOf(gh[p])]
              /\ Goto(p, req[p], "done", Ok(ListResponse(loc[p].products), "store"))
    /\ loc' = [loc EXCEPT ![p] = NoLoc]
    /\ gh' = [gh EXCEPT ![p].after = {}]
    /\ UNCHANGED <<store, seq, delDone, wrote, conns, expired>>

\* --- GET /products/{product_id}

\* cached = r.get(cache_key); if cached: return json.loads(cached)
GetCacheGet(p) ==
    /\ CanStart(p)
    /\ \E i \in Ids :
         LET r == [op |-> "get", id |-> i]
             g == [NoGh EXCEPT !.afterDel = (i \in delDone),
                               !.afterExpiry = (ProductKey(i) \in expired)]
             cached == RedisGet(ProductKey(i)) IN
           IF Truthy(cached)
           THEN /\ Goto(p, r, "done", Ok(ProductResponse(JsonLoads(cached)), "cache"))
                /\ gh' = [gh EXCEPT ![p] =
                            [g EXCEPT !.hitStale = cmeta[ProductKey(i)].staleDone,
                                      !.hitRaced = cmeta[ProductKey(i)].raced,
                                      !.hitFail = cmeta[ProductKey(i)].staleFail,
                                      !.afterWrite = wrote]]
           ELSE /\ Goto(p, r, "get_select", NoRes)
                /\ gh' = [gh EXCEPT ![p] = g]
    /\ loc' = [loc EXCEPT ![p] = NoLoc]
    /\ UNCHANGED <<store, seq, cache, cmeta, delDone, wrote, conns, expired>>

\* A faulty variant of GetSelect: a miss in the Store is cached as well.
GetSelectCachingMiss(p) ==
    /\ pc[p] = "get_select"
    /\ LET product == store[req[p].id] IN
         IF product = None
         THEN /\ Goto(p, req[p], "done", NotFound)
              /\ loc' = [loc EXCEPT ![p] = NoLoc]
              /\ cache' = [cache EXCEPT ![ProductKey(req[p].id)] =
                     [text |-> [type |-> "str", len |-> 4, json |-> None],
                      ttl |-> CacheTtl]]
         ELSE /\ Goto(p, req[p], "get_setex", NoRes)
              /\ loc' = [loc EXCEPT ![p] = [product |-> product]]
              /\ UNCHANGED cache
    /\ UNCHANGED <<store, seq, cmeta, delDone, wrote, gh, conns, expired>>

\* cursor.execute("SELECT * FROM products WHERE id = %s"); fetchone();
\* if not product: raise HTTPException(404)
GetSelect(p) ==
    /\ pc[p] = "get_select"
    /\ LET product == store[req[p].id] IN
         IF product = None
         THEN /\ Goto(p, req[p], "done", NotFound)
              /\ loc' = [loc EXCEPT ![p] = NoLoc]
         ELSE /\ Goto(p, req[p], "get_setex", NoRes)
              /\ loc' = [loc EXCEPT ![p] = [product |-> product]]
    /\ UNCHANGED <<store, seq, cache, cmeta, delDone, wrote, gh, conns, expired>>

\* r.setex(cache_key, 300, json.dumps(product_dict)); return product_dict
GetSetex(p) ==
    /\ pc[p] = "get_setex"
    /\ LET key == ProductKey(req[p].id)
           text == JsonDumpsDict(loc[p].product) IN
         IF text = TypeError
         THEN /\ Goto(p, req[p], "done", Raised(TypeError))
              /\ UNCHANGED <<cache, cmeta>>
         ELSE /\ cache' = [cache EXCEPT ![key] = [text |-> text, ttl |-> CacheTtl]]
              /\ cmeta' = [cmeta EXCEPT ![key] = MetaOf(gh[p])]
              /\ Goto(p, req[p], "done", Ok(ProductResponse(loc[p].product), "store"))
    /\ loc' = [loc EXCEPT ![p] = NoLoc]
    /\ gh' = [gh EXCEPT ![p].after = {}]
    /\ UNCHANGED <<store, seq, delDone, wrote, conns, expired>>

\* --- PUT /products/{product_id}

\* A faulty variant of UpdateExec: the cache keys are deleted before the row
\* count is looked at.
UpdateExecInvalidatingFirst(p) ==
    /\ CanStart(p)
    /\ \E i \in Ids, body \in Bodies :
         LET r == [op |-> "update", id |-> i, body |-> body] IN
           IF store[i] = None
           THEN /\ Goto(p, r, "done", NotFound)
                /\ loc' = [loc EXCEPT ![p] = NoLoc]
                /\ gh' = [gh EXCEPT ![p] = NoGh]
                /\ conns' = [conns EXCEPT ![p] = 0]
                /\ cache' = [cache EXCEPT ![ProductKey(i)] = None, ![AllKey] = None]
                /\ cmeta' = [cmeta EXCEPT ![ProductKey(i)] = NoMeta, ![AllKey] = NoMeta]
                /\ UNCHANGED store
           ELSE /\ store' = [store EXCEPT ![i] = RowOf(i, body)]
                /\ loc' = [loc EXCEPT ![p] = [updated_product |-> RowOf(i, body)]]
                /\ gh' = GhAfterCommit(gh, p, i)
                /\ cmeta' = MetaAfterCommit(cmeta, p, i)
                /\ conns' = [conns EXCEPT ![p] = 1]
                /\ Goto(p, r, "update_del_one", NoRes)
                /\ UNCHANGED cache
    /\ UNCHANGED <<seq, delDone, wrote, expired>>

\* A faulty variant of UpdateExec: the UPDATE is not committed before the
\* cache keys are deleted.
UpdateExecUncommitted(p) ==
    /\ CanStart(p)
    /\ \E i \in Ids, body \in Bodies :
         LET r == [op |-> "update", id |-> i, body |-> body] IN
           IF store[i] = None
           THEN /\ Goto(p, r, "done", NotFound)
                /\ loc' = [loc EXCEPT ![p] = NoLoc]
                /\ gh' = [gh EXCEPT ![p] = NoGh]
                /\ conns' = [conns EXCEPT ![p] = 0]
                /\ UNCHANGED cmeta
           ELSE /\ loc' = [loc EXCEPT ![p] = [updated_product |-> RowOf(i, body)]]
                /\ gh' = GhAfterCommit(gh, p, i)
                /\ cmeta' = MetaAfterCommit(cmeta, p, i)
                /\ conns' = [conns EXCEPT ![p] = 1]
                /\ Goto(p, r, "update_del_one", NoRes)
    /\ UNCHANGED <<store, seq, cache, delDone, wrote, expired>>

\* conn = get_db_connection(); UPDATE products SET ... WHERE id = %s
\* RETURNING ...; fetchone(); conn.commit();
\* if not updated_product: cursor.close(); conn.close(); raise HTTPException(404)
UpdateExec(p) ==
    /\ CanStart(p)
    /\ \E i \in Ids, body \in Bodies :
         LET r == [op |-> "update", id |-> i, body |-> body] IN
           IF store[i] = None
           THEN /\ Goto(p, r, "done", NotFound)
                /\ loc' = [loc EXCEPT ![p] = NoLoc]
                /\ gh' = [gh EXCEPT ![p] = NoGh]
                /\ conns' = [conns EXCEPT ![p] = 0]
                /\ UNCHANGED <<store, cmeta>>
           ELSE /\ store' = [store EXCEPT ![i] = RowOf(i, body)]
                /\ loc' = [loc EXCEPT ![p] = [updated_product |-> RowOf(i, body)]]
                /\ gh' = GhAfterCommit(gh, p, i)
                /\ cmeta' = MetaAfterCommit(cmeta, p, i)
                /\ conns' = [conns EXCEPT ![p] = 1]
                /\ Goto(p, r, "update_del_one", NoRes)
    /\ UNCHANGED <<seq, cache, delDone, wrote, expired>>

\* r.delete(f"product:{product_id}")
UpdateDelOne(p) ==
    /\ pc[p] = "update_del_one"
    /\ cache' = [cache EXCEPT ![ProductKey(req[p].id)] = None]
    /\ cmeta' = [cmeta EXCEPT ![ProductKey(req[p].id)] = NoMeta]
    /\ gh' = GhAfterDelete(gh, p, ProductKey(req[p].id))
    /\ Goto(p, req[p], "update_del_all", NoRes)
    /\ UNCHANGED <<store, seq, loc, delDone, wrote, conns, expired>>

\* A faulty variant of UpdateDelAll: the aggregate key is left in the cache.
UpdateDelAllSkipped(p) ==
    /\ pc[p] = "update_del_all"
    /\ cmeta' = MetaAfterReturn(cmeta, p)
    /\ gh' = GhAfterReturn(gh, p)
    /\ loc' = [loc EXCEPT ![p] = NoLoc]
    /\ Goto(p, req[p], "done", Ok(ProductResponse(loc[p].updated_product), "store"))
    /\ wrote' = TRUE
    /\ conns' = [conns EXCEPT ![p] = 0]
    /\ UNCHANGED <<store, seq, cache, delDone, expired>>

\* r.delete("products:all"); cursor.close(); conn.close();
\* return dict(updated_product)
UpdateDelAll(p) ==
    /\ pc[p] = "update_del_all"
    /\ cache' = [cache EXCEPT ![AllKey] = None]
    /\ cmeta' = MetaAfterReturn([cmeta EXCEPT ![AllKey] = NoMeta], p)
    /\ gh' = GhAfterReturn(GhAfterDelete(gh, p, AllKey), p)
    /\ loc' = [loc EXCEPT ![p] = NoLoc]
    /\ Goto(p, req[p], "done", Ok(ProductResponse(loc[p].updated_product), "store"))
    /\ wrote' = TRUE
    /\ conns' = [conns EXCEPT ![p] = 0]
    /\ UNCHANGED <<store, seq, delDone, expired>>

\* --- DELETE /products/{product_id}

\* A faulty variant of DeleteExec: the DELETE is not committed, and the row is
\* still there when the connection is closed.
DeleteExecUncommitted(p) ==
    /\ CanStart(p)
    /\ \E i \in Ids :
         LET r == [op |-> "delete", id |-> i] IN
           IF store[i] = None
           THEN /\ Goto(p, r, "done", NotFound)
                /\ loc' = [loc EXCEPT ![p] = NoLoc]
                /\ gh' = [gh EXCEPT ![p] = NoGh]
           ELSE /\ loc' = [loc EXCEPT ![p] = [deleted |-> [id |-> i]]]
                /\ gh' = [gh EXCEPT ![p] = NoGh]
                /\ Goto(p, r, "delete_del_one", NoRes)
    /\ UNCHANGED <<store, seq, cache, cmeta, delDone, wrote, conns, expired>>

\* cursor.execute("DELETE FROM products WHERE id = %s RETURNING id");
\* fetchone(); conn.commit(); if not deleted: raise HTTPException(404)
DeleteExec(p) ==
    /\ CanStart(p)
    /\ \E i \in Ids :
         LET r == [op |-> "delete", id |-> i] IN
           IF store[i] = None
           THEN /\ Goto(p, r, "done", NotFound)
                /\ loc' = [loc EXCEPT ![p] = NoLoc]
                /\ gh' = [gh EXCEPT ![p] = NoGh]
                /\ UNCHANGED <<store, cmeta>>
           ELSE /\ store' = [store EXCEPT ![i] = None]
                /\ loc' = [loc EXCEPT ![p] = [deleted |-> [id |-> i]]]
                /\ gh' = GhAfterCommit(gh, p, i)
                /\ cmeta' = MetaAfterCommit(cmeta, p, i)
                /\ Goto(p, r, "delete_del_one", NoRes)
    /\ UNCHANGED <<seq, cache, delDone, wrote, conns, expired>>

\* r.delete(f"product:{product_id}")
DeleteDelOne(p) ==
    /\ pc[p] = "delete_del_one"
    /\ cache' = [cache EXCEPT ![ProductKey(req[p].id)] = None]
    /\ cmeta' = [cmeta EXCEPT ![ProductKey(req[p].id)] = NoMeta]
    /\ gh' = GhAfterDelete(gh, p, ProductKey(req[p].id))
    /\ Goto(p, req[p], "delete_del_all", NoRes)
    /\ UNCHANGED <<store, seq, loc, delDone, wrote, conns, expired>>

\* A faulty variant of DeleteDelAll: the aggregate key is left in the cache.
DeleteDelAllSkipped(p) ==
    /\ pc[p] = "delete_del_all"
    /\ cmeta' = MetaAfterReturn(cmeta, p)
    /\ gh' = GhAfterReturn(gh, p)
    /\ delDone' = delDone \cup {req[p].id}
    /\ wrote' = TRUE
    /\ loc' = [loc EXCEPT ![p] = NoLoc]
    /\ Goto(p, req[p], "done",
            Ok([message |-> "Product deleted successfully"], "store"))
    /\ UNCHANGED <<store, seq, cache, conns, expired>>

\* r.delete("products:all"); return {"message": "Product deleted successfully"}
DeleteDelAll(p) ==
    /\ pc[p] = "delete_del_all"
    /\ cache' = [cache EXCEPT ![AllKey] = None]
    /\ cmeta' = MetaAfterReturn([cmeta EXCEPT ![AllKey] = NoMeta], p)
    /\ gh' = GhAfterReturn(GhAfterDelete(gh, p, AllKey), p)
    /\ delDone' = delDone \cup {req[p].id}
    /\ wrote' = TRUE
    /\ loc' = [loc EXCEPT ![p] = NoLoc]
    /\ Goto(p, req[p], "done",
            Ok([message |-> "Product deleted successfully"], "store"))
    /\ UNCHANGED <<store, seq, conns, expired>>

\* --- the response leaves the service, and the handler is free again; a
\* connection object the handler never closed goes with its frame

Return(p) ==
    /\ pc[p] = "done"
    /\ pc' = [pc EXCEPT ![p] = "idle"]
    /\ req' = [req EXCEPT ![p] = NoReq]
    /\ res' = [res EXCEPT ![p] = NoRes]
    /\ gh' = [gh EXCEPT ![p] = NoGh]
    /\ conns' = [conns EXCEPT ![p] = 0]
    /\ solo' = [solo EXCEPT ![p] = FALSE]
    /\ UNCHANGED <<store, seq, cache, loc, serial, hist, window, cmeta, delDone,
                   wrote, expired>>

\* --------------------------------------------------------------- failures

\* redis.exceptions.ConnectionError: a command to a Redis that is down
ConnectionError == [type |-> "ConnectionError"]
\* psycopg2.OperationalError: connect(), execute() or commit() on a
\* PostgreSQL that is down
OperationalError == [type |-> "OperationalError"]

\* The handler's next call is a Redis command.  The argument of setex is
\* evaluated first: a json.dumps that raises never reaches Redis.
AtRedisCall(p) ==
    \/ pc[p] \in {"create_inval", "update_del_one", "update_del_all",
                  "delete_del_one", "delete_del_all"}
    \/ pc[p] = "list_setex" /\ JsonDumpsList(loc[p].products) # TypeError
    \/ pc[p] = "get_setex" /\ JsonDumpsDict(loc[p].product) # TypeError

\* r.delete(...) or r.setex(...) raises.  No handler catches it: the
\* statements after it, cursor.close() and conn.close() among them, are
\* not executed, and the request ends in 500.
RedisFails(p) ==
    /\ AtRedisCall(p)
    /\ Goto(p, req[p], "done", Raised(ConnectionError))
    /\ loc' = [loc EXCEPT ![p] = NoLoc]
    /\ gh' = GhAfterFail(gh, p)
    /\ cmeta' = MetaAfterFail(cmeta, p)
    /\ UNCHANGED <<store, seq, cache, delDone, wrote, conns, expired>>

\* The requests whose first call is r.get(...).
CacheFirstRequests ==
    {[op |-> "list", use_cache |-> TRUE]} \cup {[op |-> "get", id |-> i] : i \in Ids}

\* cached = r.get(...) raises.
RedisGetFails(p) ==
    /\ CanStart(p)
    /\ \E r \in CacheFirstRequests : Goto(p, r, "done", Raised(ConnectionError))
    /\ UNCHANGED <<store, seq, cache, loc, cmeta, delDone, wrote, gh, conns, expired>>

\* The requests whose first call is get_db_connection().
StoreFirstRequests ==
    {[op |-> "create", body |-> b] : b \in Bodies}
        \cup {[op |-> "update", id |-> i, body |-> b] : i \in Ids, b \in Bodies}
        \cup {[op |-> "delete", id |-> i] : i \in Ids}
        \cup {[op |-> "list", use_cache |-> FALSE]}

\* get_db_connection() raises, and there is no connection; or
\* cursor.execute(...) or conn.commit() raises on the connection the
\* handler has opened, and conn.close() is not executed.  Nothing is
\* committed.
PostgresFails(p) ==
    /\ \/ /\ pc[p] \in {"list_select", "get_select"}
          /\ Goto(p, req[p], "done", Raised(OperationalError))
       \/ /\ CanStart(p)
          /\ \E r \in StoreFirstRequests :
                Goto(p, r, "done", Raised(OperationalError))
    /\ \E acquired \in BOOLEAN :
          conns' = [conns EXCEPT ![p] = IF acquired THEN 1 ELSE 0]
    /\ loc' = [loc EXCEPT ![p] = NoLoc]
    /\ UNCHANGED <<store, seq, cache, cmeta, delDone, wrote, gh, expired>>

\* --- GET /health

Healthy == [status |-> "healthy", postgres |-> "connected", redis |-> "connected"]
\* except Exception as e: raise HTTPException(status_code=500,
\*     detail=f"Health check failed: {str(e)}")
HealthFailed(e) ==
    [kind |-> "error", body |-> "Health check failed", src |-> "store",
     cause |-> e.type]

\* A faulty variant of HealthCheck: Redis is not asked.
HealthCheckSkippingRedis(p) ==
    /\ CanStart(p)
    /\ \E postgres \in BOOLEAN, redis \in BOOLEAN, acquired \in BOOLEAN :
         LET r == [op |-> "health", postgres |-> postgres, redis |-> redis] IN
           IF ~postgres
           THEN /\ Goto(p, r, "done", HealthFailed(OperationalError))
                /\ gh' = [gh EXCEPT ![p] = [NoGh EXCEPT !.probed = {"postgres"}]]
                /\ conns' = [conns EXCEPT ![p] = IF acquired THEN 1 ELSE 0]
           ELSE /\ gh' = [gh EXCEPT ![p] = [NoGh EXCEPT !.probed = {"postgres"}]]
                /\ conns' = [conns EXCEPT ![p] = 0]
                /\ Goto(p, r, "done", Ok(Healthy, "store"))
    /\ UNCHANGED <<store, seq, cache, loc, cmeta, delDone, wrote, expired>>

\* try: conn = get_db_connection(); cursor.execute("SELECT 1"); conn.close();
\* r.ping(); return {"status": "healthy", ...}.  postgres and redis say
\* which of the two answer while the request runs.
HealthCheck(p) ==
    /\ CanStart(p)
    /\ \E postgres \in BOOLEAN, redis \in BOOLEAN, acquired \in BOOLEAN :
         LET r == [op |-> "health", postgres |-> postgres, redis |-> redis] IN
           IF ~postgres
           THEN /\ Goto(p, r, "done", HealthFailed(OperationalError))
                /\ gh' = [gh EXCEPT ![p] = [NoGh EXCEPT !.probed = {"postgres"}]]
                /\ conns' = [conns EXCEPT ![p] = IF acquired THEN 1 ELSE 0]
           ELSE /\ gh' = [gh EXCEPT ![p] =
                            [NoGh EXCEPT !.probed = {"postgres", "redis"}]]
                /\ conns' = [conns EXCEPT ![p] = 0]
                /\ IF redis
                   THEN Goto(p, r, "done", Ok(Healthy, "store"))
                   ELSE Goto(p, r, "done", HealthFailed(ConnectionError))
    /\ UNCHANGED <<store, seq, cache, loc, cmeta, delDone, wrote, expired>>

\* ----------------------------------------------------------------- expiry

\* Seconds that pass in one step of the clock.
TickSeconds == 100

\* Time passes: Redis counts every time-to-live down and removes the keys
\* whose time-to-live has run out.
Tick ==
    /\ \E k \in Keys : cache[k] # None
    /\ cache' = [k \in Keys |->
                   IF cache[k] = None \/ cache[k].ttl <= TickSeconds
                   THEN None
                   ELSE [cache[k] EXCEPT !.ttl = @ - TickSeconds]]
    /\ cmeta' = [k \in Keys |->
                   IF cache[k] = None \/ cache[k].ttl <= TickSeconds
                   THEN NoMeta
                   ELSE cmeta[k]]
    /\ expired' = expired \cup
                    {k \in Keys : cache[k] # None /\ cache[k].ttl <= TickSeconds}
    /\ UNCHANGED <<store, seq, pc, req, loc, res, serial, hist, window, delDone,
                   wrote, gh, conns, solo>>

\* ------------------------------------------------------------ specification

\* init_db() on an empty database, and an empty Redis.
InitState ==
    /\ store = [i \in Ids |-> None]
    /\ seq = 0
    /\ cache = [k \in Keys |-> None]
    /\ pc = [p \in Procs |-> "idle"]
    /\ req = [p \in Procs |-> NoReq]
    /\ loc = [p \in Procs |-> NoLoc]
    /\ res = [p \in Procs |-> NoRes]
    /\ hist = <<>>
    /\ cmeta = [k \in Keys |-> NoMeta]
    /\ delDone = {}
    /\ wrote = FALSE
    /\ gh = [p \in Procs |-> NoGh]
    /\ conns = [p \in Procs |-> 0]
    /\ solo = [p \in Procs |-> FALSE]
    /\ expired = {}

Init == InitState /\ serial = FALSE /\ window = 0
InitSeq == InitState /\ serial = TRUE /\ window = 3
\* A serial run of which only the state is looked at.
InitOne == InitState /\ serial = TRUE /\ window = 0

Next ==
    \E p \in Procs :
        \/ CreateInsert(p) \/ CreateInvalidate(p)
        \/ ListCacheGet(p) \/ ListSelect(p) \/ ListSetex(p)
        \/ GetCacheGet(p) \/ GetSelect(p) \/ GetSetex(p)
        \/ UpdateExec(p) \/ UpdateDelOne(p) \/ UpdateDelAll(p)
        \/ DeleteExec(p) \/ DeleteDelOne(p) \/ DeleteDelAll(p)
        \/ Return(p)

\* Requests of concurrent clients.
Spec == Init /\ [][Next]_vars
\* One client that waits for each response before its next request.
SpecSeq == InitSeq /\ [][Next]_vars

\* One client, of which only the state is looked at.
SpecOne == InitOne /\ [][Next]_vars

NextFault ==
    \/ Next
    \/ \E p \in Procs :
          \/ RedisFails(p) \/ RedisGetFails(p) \/ PostgresFails(p)
          \/ HealthCheck(p)

\* One client, a PostgreSQL and a Redis that may be down at any call, and
\* the health check.
SpecFault == InitOne /\ [][NextFault]_vars

NextTtl == Next \/ Tick

\* Concurrent clients, and time passing.
SpecTtl == Init /\ [][NextTtl]_vars

\* ------------------------------------------------------------------ claims

Done(p, op) == pc[p] = "done" /\ req[p].op = op
CacheHit(p) == res[p].kind = "ok" /\ res[p].src = "cache"

\* The completed requests of a serial run, latest first.
Last(n) == hist[Len(hist) + 1 - n]

C2_NoStaleCachedRead ==
    \A p \in Procs :
        (pc[p] = "done" /\ CacheHit(p)) => ~gh[p].hitStale

\* C2, amended: such a read returns a cached text that predates the write
\* only if the text was cached by a Get or List that read the Store before
\* an Update or Delete committed and wrote the cache after it.
C2_StaleOnlyFromRacingRead ==
    \A p \in Procs :
        (pc[p] = "done" /\ CacheHit(p) /\ gh[p].hitStale) => gh[p].hitRaced

\* C2, its case: after an Update or Delete has returned, a List is served
\* from a cached text that no write has outdated.
C2_Witness ==
    \E p \in Procs :
        /\ Done(p, "list")
        /\ CacheHit(p)
        /\ gh[p].afterWrite
        /\ ~gh[p].hitStale
        /\ ~gh[p].hitRaced

\* Request e is a Get that missed the cache and found its row in the Store:
\* the path on which get_product fills the key.
FillingGet(e, i) ==
    /\ e.req.op = "get"
    /\ e.req.id = i
    /\ e.res.kind # "NotFound"
    /\ e.res.src = "store"

\* C3: with requests one at a time, after a Get(id) that fills the key and a
\* successful Update(id, fields), the next Get(id) returns the updated fields.
C3_GetAfterUpdateReturnsUpdated ==
    (/\ Len(hist) = 3
     /\ Last(1).req.op = "get"
     /\ Last(2).req.op = "update"
     /\ Last(2).res.kind = "ok"
     /\ Last(2).req.id = Last(1).req.id
     /\ FillingGet(Last(3), Last(1).req.id))
    => /\ Last(1).res.kind = "ok"
       /\ Last(1).res.body =
              ProductResponse(RowOf(Last(2).req.id, Last(2).req.body))

\* C4: a Get(id) that starts after a Delete(id) has returned successfully
\* fails with NotFound.
C4_GetAfterDeleteNotFound ==
    \A p \in Procs :
        (Done(p, "get") /\ gh[p].afterDel) => res[p] = NotFound

\* C4, its case: such a Get has ended.
C4_Witness ==
    \E p \in Procs :
        /\ Done(p, "get")
        /\ gh[p].afterDel
        /\ res[p].kind = "NotFound"

\* C5: with requests one at a time, the List that follows a Create returns
\* a listing that contains the created record.
C5_ListAfterCreateContainsRecord ==
    (/\ Len(hist) >= 2
     /\ Last(1).req.op = "list"
     /\ Last(2).req.op = "create")
    => /\ Last(1).res.kind = "ok"
       /\ \E k \in 1..Len(Last(1).res.body) :
              Last(1).res.body[k] = Last(2).res.body

StrictlyAscending(l) ==
    \A j, k \in 1..Len(l) : j < k => l[j].id < l[k].id

\* C6: every listing List holds - the rows it fetched from the Store, the
\* text it put into the cache, the result it returned from either - is in
\* strictly ascending order of identifier.
C6_ListingsAscending ==
    /\ \A p \in Procs :
          /\ pc[p] = "list_setex" => StrictlyAscending(loc[p].products)
          /\ (Done(p, "list") /\ res[p].kind = "ok") =>
                 StrictlyAscending(res[p].body)
    /\ cache[AllKey] # None => StrictlyAscending(JsonLoads(cache[AllKey].text))

\* C6, its case: List has fetched two rows.
C6_Witness ==
    \E p \in Procs : pc[p] = "list_setex" /\ Len(loc[p].products) = 2

\* The response of a Create with this request body and identifier i.
Echo(body, i) ==
    [id |-> i, name |-> body.name, description |-> body.description,
     price |-> body.price, stock |-> body.stock]

\* C7: with requests one at a time, Create returns its fields with a new
\* identifier, the Get(id) that follows returns that record from the Store,
\* and the Get(id) after that returns it from the cache.
C7_CreateThenGetRoundTrip ==
    /\ (Len(hist) >= 1 /\ Last(1).req.op = "create") =>
          /\ Last(1).res.kind = "ok"
          /\ Last(1).res.body = Echo(Last(1).req.body, Last(1).res.body.id)
    /\ (/\ Len(hist) >= 2
        /\ Last(2).req.op = "create"
        /\ Last(1).req.op = "get"
        /\ Last(1).req.id = Last(2).res.body.id) =>
          /\ Last(1).res.kind = "ok"
          /\ Last(1).res.src = "store"
          /\ Last(1).res.body = Last(2).res.body
    /\ (/\ Len(hist) = 3
        /\ Last(3).req.op = "create"
        /\ Last(2).req.op = "get"
        /\ Last(1).req.op = "get"
        /\ Last(2).req.id = Last(3).res.body.id
        /\ Last(1).req.id = Last(3).res.body.id) =>
          /\ Last(1).res.kind = "ok"
          /\ Last(1).res.src = "cache"
          /\ Last(1).res.body = Last(3).res.body

\* C8: an Update of an identifier without a row ends with NotFound in the
\* one step it takes, and that step changes neither the Store nor the Cache.
C8_UpdateMissingChangesNothing ==
    [][\A p \in Procs :
          (/\ pc[p] = "idle"
           /\ pc'[p] # "idle"
           /\ req'[p].op = "update"
           /\ store[req'[p].id] = None)
          => /\ pc'[p] = "done"
             /\ res'[p] = NotFound
             /\ store' = store
             /\ seq' = seq
             /\ cache' = cache]_vars

\* C8, its case: such an Update has ended while the cache held a listing.
C8_Witness ==
    \E p \in Procs :
        /\ Done(p, "update")
        /\ res[p] = NotFound
        /\ cache[AllKey] # None

\* C9: a Get of an identifier without a cache entry and without a row ends
\* with NotFound, and neither of its two steps changes the Store or the
\* Cache: the miss is not cached.
C9_GetMissingChangesNothing ==
    [][\A p \in Procs :
          /\ (/\ pc[p] = "idle"
              /\ pc'[p] = "get_select")
             => /\ store' = store
                /\ cache' = cache
          /\ (/\ pc[p] = "get_select"
              /\ pc'[p] # "get_select"
              /\ store[req[p].id] = None)
             => /\ pc'[p] = "done"
                /\ res'[p] = NotFound
                /\ store' = store
                /\ seq' = seq
                /\ cache' = cache]_vars

\* C9, its case: such a Get has ended, and its key is absent.
C9_Witness ==
    \E p \in Procs :
        /\ Done(p, "get")
        /\ res[p] = NotFound
        /\ cache[ProductKey(req[p].id)] = None

\* C10: with requests one at a time, two successive List(use_cache=true)
\* return the same payload, the second from the cache.
C10_ListTwiceIdentical ==
    (/\ Len(hist) >= 2
     /\ Last(1).req = [op |-> "list", use_cache |-> TRUE]
     /\ Last(2).req = [op |-> "list", use_cache |-> TRUE])
    => /\ Last(1).res.kind = "ok"
       /\ Last(2).res.kind = "ok"
       /\ Last(1).res.body = Last(2).res.body
       /\ Last(1).res.src = "cache"

\* Handler p takes a step of a request whose operation is one of ops.
Steps(p, ops) ==
    /\ pc'[p] # pc[p]
    /\ pc[p] # "done"
    /\ req'[p].op \in ops

WriteDone(p) ==
    /\ pc[p] = "done"
    /\ req[p].op \in {"update", "delete"}
    /\ res[p].kind = "ok"

\* C11: when an Update or Delete of id has returned successfully and no
\* other request has run since it began, neither product:{id} nor
\* products:all is in the cache; and the step that commits the write deletes
\* no key, while each step that deletes a key leaves the Store as the commit
\* made it: both deletions come after the commit.
C11_InvalidatedAfterCommit ==
    /\ [](\A p \in Procs :
            WriteDone(p) /\ solo[p] =>
                /\ cache[ProductKey(req[p].id)] = None
                /\ cache[AllKey] = None)
    /\ [][\A p \in Procs :
            Steps(p, {"update", "delete"}) =>
                /\ pc[p] = "idle" => cache' = cache
                /\ cache' # cache =>
                      /\ pc[p] \in {"update_del_one", "update_del_all",
                                    "delete_del_one", "delete_del_all"}
                      /\ store' = store]_vars

\* C11, its case: a List has cached the listing, and an Update or Delete
\* that ran on its own has returned; the listing key is gone.
C11_Witness ==
    \E p \in Procs, q \in Procs :
        /\ WriteDone(p) /\ solo[p]
        /\ Done(q, "list") /\ res[q].kind = "ok" /\ res[q].src = "store"
        /\ cache[AllKey] = None

\* The keys a write request may delete.
KeysOfWrite(r) ==
    IF r.op = "create" THEN {AllKey} ELSE {ProductKey(r.id), AllKey}

Changed(k) == cache'[k] # cache[k]

\* C12: a step of Create, Update or Delete changes the cache only by
\* deleting keys, and only its own: products:all for Create, product:{id}
\* and products:all for Update and Delete of id; every other key keeps its
\* entry.  A step of Get or List changes at most its own key (product:{id},
\* products:all), by writing an entry; nothing else changes the cache.
C12_WritesOnlyDeleteOwnKeys ==
    [][/\ \A p \in Procs :
            Steps(p, {"create", "update", "delete"}) =>
                \A k \in Keys :
                    Changed(k) => cache'[k] = None /\ k \in KeysOfWrite(req'[p])
       /\ \A p \in Procs :
            Steps(p, {"get", "list"}) =>
                \A k \in Keys :
                    Changed(k) => cache'[k] # None /\ k = KeyOf(req'[p])
       /\ (\E k \in Keys : Changed(k)) =>
            \E p \in Procs :
                Steps(p, {"create", "update", "delete", "get", "list"})]_vars

\* C12, its case: a List has cached the listing before a Create began, and
\* the Create has returned; the listing key is gone.
C12_Witness ==
    \E p \in Procs, q \in Procs :
        /\ Done(p, "create") /\ res[p].kind = "ok" /\ solo[p]
        /\ Done(q, "list") /\ res[q].kind = "ok" /\ res[q].src = "store"
        /\ cache[AllKey] = None

AtRest == \A q \in Procs : pc[q] \in {"idle", "done"}

\* C13: in a serial run, a List(use_cache=false) returns the rows of the
\* Store in ascending order of id, whatever products:all held, and leaves
\* that listing in products:all with a time-to-live of 300 seconds; a
\* List(use_cache=true) right after it returns the same listing.
C13_ListNoCacheReturnsStore ==
    /\ (/\ AtRest
        /\ Len(hist) >= 1
        /\ Last(1).req = [op |-> "list", use_cache |-> FALSE]) =>
            /\ Last(1).res.kind = "ok"
            /\ Last(1).res.src = "store"
            /\ Last(1).res.body = ListResponse(SelectAll)
            /\ cache[AllKey] # None
            /\ cache[AllKey].ttl = CacheTtl
            /\ ListResponse(JsonLoads(cache[AllKey].text)) = Last(1).res.body
    /\ (/\ Len(hist) >= 2
        /\ Last(2).req = [op |-> "list", use_cache |-> FALSE]
        /\ Last(1).req = [op |-> "list", use_cache |-> TRUE]) =>
            /\ Last(2).res.kind = "ok"
            /\ Last(1).res.kind = "ok"
            /\ Last(1).res.body = Last(2).res.body

\* C14: a request of Create, List, Get, Update or Delete that has ended,
\* whether in success, in NotFound or in the failure of a Store or Cache
\* call, holds no open Store connection.
C14_ConnectionsReleased ==
    \A p \in Procs :
        (/\ pc[p] = "done"
         /\ req[p].op \in {"create", "list", "get", "update", "delete"}) =>
            conns[p] = 0

\* C15: a step that ends a request in an exception changes neither the
\* Store nor the cache, and the request is over: nothing is retried, rolled
\* back or cleaned up.  In particular, when r.delete raises in an Update or
\* Delete of id, the Store keeps the write that was committed, and the keys
\* not yet deleted keep their entries.
C15_FailureLeavesCommitAndCache ==
    /\ [](\A p \in Procs :
            (/\ pc[p] = "done"
             /\ req[p].op \in {"update", "delete"}
             /\ res[p].kind = "error"
             /\ res[p].body = ConnectionError.type) =>
                store[req[p].id] = IF req[p].op = "update"
                                   THEN RowOf(req[p].id, req[p].body)
                                   ELSE None)
    /\ [][\A p \in Procs :
            (/\ pc'[p] # pc[p]
             /\ pc'[p] = "done"
             /\ res'[p].kind = "error") =>
                /\ store' = store
                /\ cache' = cache]_vars

\* C15, its case: the listing was in the cache when a write committed, the
\* write failed before it deleted products:all, and a later
\* List(use_cache=true) has returned that listing.
C15_Witness ==
    \E p \in Procs :
        /\ Done(p, "list")
        /\ CacheHit(p)
        /\ gh[p].hitFail
        /\ res[p].body # ListResponse(SelectAll)

\* A Get, or a List(use_cache=true), that has ended.
ReadDone(p) ==
    /\ pc[p] = "done"
    /\ \/ req[p].op = "get"
       \/ req[p].op = "list" /\ req[p].use_cache

\* C16: every entry has a time-to-live of at most 300 seconds; and a Get or
\* List(use_cache=true) that began after the entry of its key had expired,
\* with no other request running since, returns what the Store holds: the
\* row or NotFound for Get, the rows in ascending order of id for List.
C16_FreshAfterExpiry ==
    /\ \A k \in Keys : cache[k] # None => cache[k].ttl \in 1..CacheTtl
    /\ \A p \in Procs :
          (ReadDone(p) /\ gh[p].afterExpiry /\ ~CacheHit(p) /\ solo[p]) =>
              /\ res[p].kind # "error"
              /\ (res[p].kind = "ok" /\ req[p].op = "list") =>
                    res[p].body = ListResponse(SelectAll)
              /\ (res[p].kind = "ok" /\ req[p].op = "get") =>
                    /\ store[req[p].id] # None
                    /\ res[p].body = ProductResponse(store[req[p].id])
              /\ res[p].kind = "NotFound" => store[req[p].id] = None

\* C17: a Get of id that read the row from the Store before an Update (or
\* Delete) of id committed, and whose cache write comes after that write
\* has deleted product:{id}, leaves the row it read in product:{id}.
C17_RacingGetLeavesOldRow ==
    [][\A p \in Procs :
          (/\ pc[p] = "get_setex"
           /\ pc'[p] = "done"
           /\ gh[p].missedInval) =>
              /\ cache'[ProductKey(req[p].id)] # None
              /\ JsonLoads(cache'[ProductKey(req[p].id)].text) = loc[p].product]_vars

\* C18: in a serial run without failures and expiry, between requests the
\* cache agrees with the Store: an entry of product:{id} is the row of id
\* (so there is none without a row), and an entry of products:all is the
\* rows of the Store in ascending order of id.
C18_SerialCacheCoherent ==
    AtRest =>
        /\ \A i \in Ids :
              cache[ProductKey(i)] # None =>
                  /\ store[i] # None
                  /\ JsonLoads(cache[ProductKey(i)].text) = store[i]
        /\ cache[AllKey] # None =>
              ListResponse(JsonLoads(cache[AllKey].text)) = ListResponse(SelectAll)

\* C18, its case: records have been created and deleted, and a later List
\* has left its listing in the cache.
C18_Witness ==
    /\ AtRest
    /\ cache[AllKey] # None
    /\ seq > 0
    /\ wrote

\* C19: seq is the largest id handed out so far and never decreases; a
\* Create inserts and returns the row of id seq + 1, an id no earlier
\* record had, deleted ones included; a row keeps its id for as long as it
\* exists, and an Update of id returns id.  No key product:{id} holds a row
\* of another id or of an id not handed out yet, so no entry left by a
\* deleted record is under the key of a record created later.
C19_IdsFreshAndImmutable ==
    /\ [](/\ \A i \in Ids :
                /\ store[i] # None => store[i].id = i /\ i <= seq
                /\ cache[ProductKey(i)] # None =>
                      /\ JsonLoads(cache[ProductKey(i)].text).id = i
                      /\ i <= seq
          /\ \A p \in Procs :
                (pc[p] = "done" /\ res[p].kind = "ok") =>
                    /\ req[p].op = "update" => res[p].body.id = req[p].id
                    /\ req[p].op = "create" => res[p].body.id <= seq)
    /\ [][/\ seq' >= seq
          /\ \A i \in Ids :
                (store[i] = None /\ store'[i] # None) =>
                    /\ i > seq
                    /\ i = seq'
                    /\ \E p \in Procs :
                          /\ pc[p] = "idle"
                          /\ pc'[p] = "create_inval"
                          /\ loc'[p].new_product.id = i]_vars

\* C19, its case: a Delete had returned before a Create began, and the
\* Create has returned the id of its record.
C19_Witness ==
    \E p \in Procs :
        /\ Done(p, "create")
        /\ res[p].kind = "ok"
        /\ solo[p]
        /\ delDone # {}
        /\ store[res[p].body.id] # None

\* C20: a health check answers healthy exactly when PostgreSQL and Redis
\* both answer; otherwise it ends in the one failure "Health check failed",
\* whichever of the two did not answer; Redis is asked only after
\* PostgreSQL has answered; and the check changes neither the Store nor the
\* cache.
C20_HealthyIffBothProbesSucceed ==
    /\ [](\A p \in Procs :
            Done(p, "health") =>
                /\ res[p].kind = "ok" <=> (req[p].postgres /\ req[p].redis)
                /\ res[p].kind = "ok" => res[p].body = Healthy
                /\ res[p].kind # "ok" =>
                      /\ res[p].kind = "error"
                      /\ res[p].body = HealthFailed(OperationalError).body
                /\ gh[p].probed = IF req[p].postgres
                                  THEN {"postgres", "redis"}
                                  ELSE {"postgres"})
    /\ [][\A p \in Procs :
            Steps(p, {"health"}) => store' = store /\ cache' = cache]_vars

\* C20, its case: after records have been created, a check has failed on
\* PostgreSQL without asking Redis.
C20_Witness ==
    \E p \in Procs :
        /\ Done(p, "health")
        /\ ~req[p].postgres
        /\ res[p].kind = "error"
        /\ "redis" \notin gh[p].probed
        /\ seq > 0

====
